---- MODULE Spec2Model ----
(***************************************************************************)
(* Ingestion core of the tax-guidance assistant: the relational store      *)
(* (documents, chunks, chunk references), the reference-graph operations   *)
(* of app/crud/crud_chunk_reference.py and the two ingestion pipelines of  *)
(* app/services/ingestion.                                                 *)
(*                                                                         *)
(* Identifiers: a document is identified by its URL (the url column is     *)
(* unique), chunk and reference ids are drawn from counters in place of    *)
(* uuid4.  Python's None is 0 for a chunk id and "none" for a string.      *)
(***************************************************************************)
EXTENDS Integers, Sequences, FiniteSets, TLC

\* ---------------------------------------------------------------- bounds
MaxChunks == 2
MaxRefs == 2
MaxBatch == 2

\* ------------------------------------------------------------- universes
URLs == {"u1", "u2"}
Sections == {"S1", "S2"}
NoSection == "none"
NoChunk == 0
ChunkIds == 1..MaxChunks
RefIds == 1..MaxRefs

\* app/models/chunk_reference.py: ReferenceStrength
Strengths == {"required", "recommended", "optional"}

VARIABLES
    docs,       \* source_documents: url -> row
    chunks,     \* document_chunks: id -> row
    refs,       \* chunk_references: id -> row
    nextChunk,  \* next fresh chunk id
    nextRef,    \* next fresh reference id
    lastOp,     \* the store operation that ran last and the rows it touched
    ex,         \* the frame of a running expand_references call
    rs,         \* per session: the frame of its resolve_references_by_section call
    lc,         \* the frame of a LegalChunker._split_preserving_lists call
    sc,         \* the frame of a _chunk_section call
    hp,         \* the frame of ContentParser._extract_sections
    facts,      \* structured_* tables: the extracted records
    cfg,        \* the pipeline object's class and configuration
    wk,         \* per worker: the frame of its ingest_url call
    errCount,   \* per worker: its pipeline object's _error_count
    run,        \* the frame of run() on worker 1
    log         \* the URLs named by the error lines written so far, in order

dbVars == <<docs, chunks, refs, nextChunk, nextRef>>
pipeVars == <<facts, cfg, wk, errCount, run, log>>
nonDbVars == <<ex, rs, lc, sc, hp, facts, cfg, wk, errCount, run, log>>
vars == <<docs, chunks, refs, nextChunk, nextRef, lastOp, ex, rs, lc, sc, hp, facts, cfg, wk, errCount, run, log>>

\* ----------------------------------------------------------- row schemas
\* app/models/document.py: SourceDocument (the columns ingestion touches)
NoHash == << >>
DocRow(h, st, n) == [content_hash |-> h, ingestion_status |-> st, total_chunks |-> n]

\* app/models/chunk.py: DocumentChunk (the columns ingestion touches)
ChunkRow(d, i, n, s, txt) ==
    [document_id |-> d, chunk_index |-> i, total_chunks_in_doc |-> n,
     section_id |-> s, content |-> txt, has_outgoing_references |-> FALSE,
     has_incoming_references |-> FALSE]

\* app/schema/chunk_reference.py: ChunkReferenceCreate.  Every field the
\* caller may set is an input; nothing ties is_resolved to target_chunk_id.
ChunkReferenceCreate ==
    { d \in [source_chunk_id : ChunkIds, target_chunk_id : {NoChunk} \cup ChunkIds,
             target_section_id : {NoSection} \cup Sections,
             reference_text : Sections,
             reference_strength : Strengths, is_resolved : BOOLEAN] :
        d.target_section_id # NoSection => d.reference_text = d.target_section_id }

\* app/schema/chunk_reference.py: ChunkReferenceUpdate.  A field is either
\* unset (set_x = FALSE) or set to a value; target_chunk_id may be set to None.
ChunkReferenceUpdate ==
    { u \in [set_target : BOOLEAN, target_chunk_id : {NoChunk} \cup ChunkIds,
             set_resolved : BOOLEAN, is_resolved : BOOLEAN,
             set_strength : BOOLEAN, reference_strength : Strengths] :
        /\ ~u.set_target => u.target_chunk_id = NoChunk
        /\ ~u.set_resolved => u.is_resolved = FALSE
        /\ ~u.set_strength => u.reference_strength = "recommended" }

\* app/models/chunk_reference.py: ChunkReference row built from create data
RefRow(d) ==
    [source_chunk_id |-> d.source_chunk_id, target_chunk_id |-> d.target_chunk_id,
     target_section_id |-> d.target_section_id, reference_text |-> d.reference_text,
     reference_strength |-> d.reference_strength, is_resolved |-> d.is_resolved]

Op(name, sec, c, r, n) == [op |-> name, count |-> n]

\* Foreign keys of chunk_references: both endpoints name existing chunks.
FkOk(d) ==
    /\ d.source_chunk_id \in DOMAIN chunks
    /\ d.target_chunk_id \in {NoChunk} \cup DOMAIN chunks

Extend(f, k, v) == [x \in DOMAIN f \cup {k} |-> IF x = k THEN v ELSE f[x]]
Restrict(f, S) == [x \in S |-> f[x]]

\* ------------------------------------------------------------------ Init
\* an empty store
InitDb ==
    /\ docs = << >>
    /\ chunks = << >>
    /\ refs = << >>
    /\ nextChunk = 1
    /\ nextRef = 1
    /\ lastOp = Op("init", NoSection, NoChunk, 0, 0)

ExIdle ==
    [pc |-> "idle", seeds |-> << >>, max_depth |-> 0, strength_filter |-> {},
     max_total |-> 0, all_chunk_ids |-> {}, current_chunks |-> {},
     new_chunk_ids |-> {}, pending |-> {}, depth |-> 0, all_references |-> {}]

\* --------------------------------------------------- pipeline object state
MaxVersion == 2
MaxRunLen == 3
MaxErrorsBound == 2
MaxRuns == 1
MaxCalls == 2

Workers == {1, 2}
\* pipeline.py: IngestionMode
Modes == {"skip_existing", "update_if_changed", "force_update"}
\* pipeline.py: PipelineConfig.max_errors
DefaultMaxErrors == 50

\* the frame of ingest_url: the IngestionResult being built and the locals
WkIdle ==
    [pc |-> "idle", url |-> "none", version |-> 0, hash |-> NoHash,
     existing |-> FALSE, reason |-> "none", action |-> "", success |-> FALSE,
     error |-> "none", chunks_created |-> 0, wrote |-> FALSE, calls |-> 0,
     first_chunk |-> NoChunk, kinds |-> {}, xi |-> 1]

\* the frame of run(): the loop position, the results and the counters
RunIdle ==
    [pc |-> "idle", urls |-> << >>, i |-> 0, results |-> << >>,
     docs_created |-> 0, docs_updated |-> 0, docs_skipped |-> 0, docs_failed |-> 0,
     total_chunks |-> 0, stopped |-> FALSE, status |-> "none", runs |-> 0]

\* the frame of resolve_references_by_section: the arguments and the rows read
RsIdle == [pc |-> "idle", section_id |-> NoSection, target_chunk_id |-> NoChunk,
           references |-> {}, pending |-> {}, calls |-> 0]

\* the frame of _split_preserving_lists: its arguments and the pieces it returns
LcIdle == [pc |-> "idle", text |-> << >>, max_size |-> 0,
           max_condition_list_size |-> 0, pieces |-> << >>]

\* the frame of _chunk_section: the section's content, the configured sizes,
\* the pieces cut, and per chunk its content and its overlap_text
ScIdle == [pc |-> "idle", chunker |-> "none", text |-> << >>, target_chunk_size |-> 0,
           max_chunk_size |-> 0, overlap_size |-> 0, pieces |-> << >>,
           contents |-> << >>, overlap_texts |-> << >>]

\* the frame of _extract_sections: the heading levels met so far and
\* current_path, each entry with the level of the heading it came from
\* The document title is heading 0; the element met as the n-th heading has
\* text n unless its text is the title's.
Title == 0
HpIdle == [levels |-> << >>,
           current_path |-> <<[heading |-> Title, level |-> 0]>>,
           current_heading |-> Title, current_level |-> 1,
           has_content |-> FALSE, sections |-> << >>]

PipeIdle ==
    /\ rs = [w \in Workers |-> RsIdle]
    /\ lc = LcIdle
    /\ sc = ScIdle
    /\ hp = HpIdle
    /\ facts = {}
    /\ wk = [w \in Workers |-> WkIdle]
    /\ errCount = [w \in Workers |-> 0]
    /\ run = RunIdle
    /\ log = << >>

DefaultConfig == [kind |-> "basic", mode |-> "update_if_changed", max_errors |-> DefaultMaxErrors]

\* ------------------------------------------------- document and chunk CRUD
\* crud_document.create_document: content_hash is not among the columns set.
create_document(u) ==
    /\ u \notin DOMAIN docs
    /\ docs' = Extend(docs, u, DocRow(NoHash, "pending", 0))

CrudCreateDocument(u) ==
    /\ create_document(u)
    /\ lastOp' = Op("create_document", NoSection, NoChunk, 0, 0)
    /\ UNCHANGED nonDbVars
    /\ UNCHANGED <<chunks, refs, nextChunk, nextRef>>

\* crud_chunk.create_chunk
CrudCreateChunk(d, s) ==
    /\ d \in DOMAIN docs
    /\ nextChunk <= MaxChunks
    /\ chunks' = Extend(chunks, nextChunk, ChunkRow(d, 0, 1, s, << >>))
    /\ nextChunk' = nextChunk + 1
    /\ lastOp' = Op("create_chunk", s, nextChunk, 0, 0)
    /\ UNCHANGED nonDbVars
    /\ UNCHANGED <<docs, refs, nextRef>>

\* --------------------------------------------------------- reference CRUD
RaiseOutgoing(ch, S) ==
    [c \in DOMAIN ch |-> IF c \in S THEN [ch[c] EXCEPT !.has_outgoing_references = TRUE]
                         ELSE ch[c]]
RaiseIncoming(ch, S) ==
    [c \in DOMAIN ch |-> IF c \in S THEN [ch[c] EXCEPT !.has_incoming_references = TRUE]
                         ELSE ch[c]]

\* crud_chunk_reference.create_reference
CreateReference(d) ==
    /\ nextRef <= MaxRefs
    /\ FkOk(d)
    /\ refs' = Extend(refs, nextRef, RefRow(d))
    /\ nextRef' = nextRef + 1
    /\ chunks' = LET out == RaiseOutgoing(chunks, {d.source_chunk_id})
                 IN  IF d.is_resolved /\ d.target_chunk_id # NoChunk
                     THEN RaiseIncoming(out, {d.target_chunk_id})
                     ELSE out
    /\ lastOp' = Op("create_reference", d.target_section_id, d.target_chunk_id, nextRef, 1)
    /\ UNCHANGED nonDbVars
    /\ UNCHANGED <<docs, nextChunk>>

\* crud_chunk_reference.create_references_batch
CreateReferencesBatch(ds) ==
    /\ Len(ds) > 0
    /\ nextRef + Len(ds) - 1 <= MaxRefs
    /\ \A i \in 1..Len(ds) : FkOk(ds[i])
    /\ refs' = [r \in DOMAIN refs \cup (nextRef..(nextRef + Len(ds) - 1)) |->
                   IF r \in DOMAIN refs THEN refs[r] ELSE RefRow(ds[r - nextRef + 1])]
    /\ nextRef' = nextRef + Len(ds)
    /\ chunks' =
         LET srcs == {ds[i].source_chunk_id : i \in 1..Len(ds)}
             tgts == {ds[i].target_chunk_id :
                        i \in {j \in 1..Len(ds) : ds[j].is_resolved /\ ds[j].target_chunk_id # NoChunk}}
         IN  RaiseIncoming(RaiseOutgoing(chunks, srcs), tgts)
    /\ lastOp' = Op("create_references_batch", NoSection, NoChunk, nextRef, Len(ds))
    /\ UNCHANGED nonDbVars
    /\ UNCHANGED <<docs, nextChunk>>

\* crud_chunk_reference.resolve_reference
ResolveReference(r, t) ==
    /\ r \in DOMAIN refs
    /\ t \in DOMAIN chunks
    /\ refs' = [refs EXCEPT ![r].target_chunk_id = t, ![r].is_resolved = TRUE]
    /\ chunks' = RaiseIncoming(chunks, {t})
    /\ lastOp' = Op("resolve_reference", NoSection, t, r, 1)
    /\ UNCHANGED nonDbVars
    /\ UNCHANGED <<docs, nextChunk, nextRef>>

\* crud_chunk_reference.resolve_references_by_section: the rows the query selects
UnresolvedForSection(rf, section_id) ==
    {r \in DOMAIN rf : rf[r].target_section_id = section_id /\ ~rf[r].is_resolved}

\* a batch resolution that stops after the first matching row
ResolvedBySection_First(rf, section_id, target_chunk_id) ==
    LET m == UnresolvedForSection(rf, section_id)
        one == IF m = {} THEN {} ELSE {CHOOSE r \in m : \A q \in m : r <= q}
    IN  [r \in DOMAIN rf |->
            IF r \in one
            THEN [rf[r] EXCEPT !.target_chunk_id = target_chunk_id, !.is_resolved = TRUE]
            ELSE rf[r]]

\* crud_chunk_reference.resolve_references_by_section: the rows after the loop
ResolvedBySection(rf, section_id, target_chunk_id) ==
    [r \in DOMAIN rf |->
        IF r \in UnresolvedForSection(rf, section_id)
        THEN [rf[r] EXCEPT !.target_chunk_id = target_chunk_id, !.is_resolved = TRUE]
        ELSE rf[r]]

\* crud_chunk_reference.resolve_references_by_section
ResolveReferencesBySection(section_id, target_chunk_id) ==
    LET n == Cardinality(UnresolvedForSection(refs, section_id))
    IN  /\ target_chunk_id \in DOMAIN chunks
        /\ refs' = ResolvedBySection(refs, section_id, target_chunk_id)
        /\ chunks' = IF n > 0 THEN RaiseIncoming(chunks, {target_chunk_id}) ELSE chunks
        /\ lastOp' = Op("resolve_references_by_section", section_id, target_chunk_id, 0, n)
        /\ UNCHANGED nonDbVars
        /\ UNCHANGED <<docs, nextChunk, nextRef>>

\* crud_chunk_reference.update_reference: setattr for every field that was set
UpdatedRow(row, u) ==
    [row EXCEPT !.target_chunk_id = IF u.set_target THEN u.target_chunk_id ELSE @,
                !.is_resolved = IF u.set_resolved THEN u.is_resolved ELSE @,
                !.reference_strength =
                    IF u.set_strength THEN u.reference_strength ELSE @]

\* crud_chunk_reference.update_reference
UpdateReference(r, u) ==
    /\ r \in DOMAIN refs
    /\ u.target_chunk_id \in {NoChunk} \cup DOMAIN chunks
    /\ refs' = [refs EXCEPT ![r] = UpdatedRow(refs[r], u)]
    /\ lastOp' = Op("update_reference", NoSection, u.target_chunk_id, r, 1)
    /\ UNCHANGED nonDbVars
    /\ UNCHANGED <<docs, chunks, nextChunk, nextRef>>

\* crud_chunk_reference.delete_reference
DeleteReference(r) ==
    /\ r \in DOMAIN refs
    /\ refs' = Restrict(refs, DOMAIN refs \ {r})
    /\ lastOp' = Op("delete_reference", NoSection, NoChunk, r, 1)
    /\ UNCHANGED nonDbVars
    /\ UNCHANGED <<docs, chunks, nextChunk, nextRef>>

\* crud_chunk_reference.delete_references_for_chunk
DeleteReferencesForChunk(c) ==
    LET gone == {r \in DOMAIN refs :
                    refs[r].source_chunk_id = c \/ refs[r].target_chunk_id = c}
    IN  /\ c \in ChunkIds
        /\ gone # {}
        /\ refs' = Restrict(refs, DOMAIN refs \ gone)
        /\ lastOp' = Op("delete_references_for_chunk", NoSection, c, 0, Cardinality(gone))
        /\ UNCHANGED nonDbVars
        /\ UNCHANGED <<docs, chunks, nextChunk, nextRef>>

\* the inputs the store operations are driven with
CrudUrls == {"u1"}
CrudSections == {NoSection, "S1"}
CreateInputs ==
    {d \in ChunkReferenceCreate :
        /\ d.reference_strength = "recommended"
        /\ d.target_section_id \in CrudSections
        /\ d.reference_text = "S1"}
UpdateInputs == {u \in ChunkReferenceUpdate : u.reference_strength = "recommended"}
BatchInputs == UNION {[1..n -> CreateInputs] : n \in 1..MaxBatch}

NextRef ==
    \/ \E u \in CrudUrls : CrudCreateDocument(u)
    \/ \E d \in CrudUrls, s \in CrudSections : CrudCreateChunk(d, s)
    \/ \E d \in CreateInputs : CreateReference(d)
    \/ \E ds \in BatchInputs : CreateReferencesBatch(ds)
    \/ \E r \in RefIds, t \in ChunkIds : ResolveReference(r, t)
    \/ \E s \in Sections, t \in ChunkIds : ResolveReferencesBySection(s, t)
    \/ \E r \in RefIds, u \in UpdateInputs : UpdateReference(r, u)
    \/ \E r \in RefIds : DeleteReference(r)
    \/ \E c \in ChunkIds : DeleteReferencesForChunk(c)

InitRef == InitDb /\ ex = ExIdle /\ PipeIdle /\ cfg = DefaultConfig

SpecRef == InitRef /\ [][NextRef]_vars

\* the store driven by creations, resolutions and deletions alone
NextFlags ==
    \/ \E u \in CrudUrls : CrudCreateDocument(u)
    \/ \E d \in CrudUrls, s \in CrudSections : CrudCreateChunk(d, s)
    \/ \E d \in CreateInputs : CreateReference(d)
    \/ \E ds \in BatchInputs : CreateReferencesBatch(ds)
    \/ \E r \in RefIds, t \in ChunkIds : ResolveReference(r, t)
    \/ \E s \in Sections, t \in ChunkIds : ResolveReferencesBySection(s, t)
    \/ \E r \in RefIds : DeleteReference(r)
    \/ \E c \in ChunkIds : DeleteReferencesForChunk(c)

SpecFlags == InitRef /\ [][NextFlags]_vars

\* ------------------------------------- concurrent resolution by section
MaxResolveCalls == 2

\* two passages that share section id S1, a passage that cites, and any subset
\* of these unresolved rows
ResolvePool ==
    << [source_chunk_id |-> 3, target_chunk_id |-> NoChunk, target_section_id |-> "S1",
        reference_text |-> "S1", reference_strength |-> "required", is_resolved |-> FALSE],
       [source_chunk_id |-> 3, target_chunk_id |-> NoChunk, target_section_id |-> "S1",
        reference_text |-> "S1", reference_strength |-> "recommended", is_resolved |-> FALSE],
       [source_chunk_id |-> 3, target_chunk_id |-> NoChunk, target_section_id |-> "S1",
        reference_text |-> "S1", reference_strength |-> "optional", is_resolved |-> FALSE],
       [source_chunk_id |-> 3, target_chunk_id |-> NoChunk, target_section_id |-> "S2",
        reference_text |-> "S2", reference_strength |-> "required", is_resolved |-> FALSE] >>

InitResolve ==
    /\ docs = [u \in {"u1"} |-> DocRow(NoHash, "completed", 3)]
    /\ chunks = [c \in 1..3 |->
                    ChunkRow("u1", c - 1, 3, IF c < 3 THEN "S1" ELSE NoSection, << >>)]
    /\ \E E \in SUBSET (1..Len(ResolvePool)) : refs = [r \in E |-> ResolvePool[r]]
    /\ nextChunk = 4
    /\ nextRef = Len(ResolvePool) + 1
    /\ lastOp = Op("init", NoSection, NoChunk, 0, 0)
    /\ ex = ExIdle
    /\ PipeIdle
    /\ cfg = DefaultConfig

\* resolve_references_by_section, lines 323-329: the session's query
RsRead(w, section_id, target_chunk_id) ==
    /\ rs[w].pc \in {"idle", "done"}
    /\ rs[w].calls < MaxResolveCalls
    /\ target_chunk_id \in DOMAIN chunks
    /\ LET found == UnresolvedForSection(refs, section_id)
       IN  rs' = [rs EXCEPT ![w] = [pc |-> "read", section_id |-> section_id,
                                    target_chunk_id |-> target_chunk_id,
                                    references |-> found, pending |-> found,
                                    calls |-> rs[w].calls + 1]]
    /\ UNCHANGED <<dbVars, lastOp, ex, lc, sc, hp, pipeVars>>

\* a loop that commits after every row
CommitBatches_RowWise(rows) == IF rows = {} THEN {{}} ELSE {{r} : r \in rows}

\* resolve_references_by_section, lines 331-346: the loop assigns to the rows in
\* the session and the one db.commit() after it writes them in one transaction
CommitBatches(rows) == {rows}

\* resolve_references_by_section, lines 331-347: the loop over the rows read,
\* the has_incoming_references flag, and the commit
RsCommit(w, batch) ==
    /\ rs[w].pc = "read"
    /\ batch \in CommitBatches(rs[w].pending)
    /\ batch \subseteq DOMAIN refs
    /\ refs' = [r \in DOMAIN refs |->
                   IF r \in batch
                   THEN [refs[r] EXCEPT !.target_chunk_id = rs[w].target_chunk_id,
                                        !.is_resolved = TRUE]
                   ELSE refs[r]]
    /\ chunks' = IF rs[w].references # {} /\ rs[w].pending = batch
                 THEN RaiseIncoming(chunks, {rs[w].target_chunk_id} \cap DOMAIN chunks)
                 ELSE chunks
    /\ rs' = [rs EXCEPT ![w].pending = @ \ batch,
                        ![w].pc = IF rs[w].pending = batch THEN "done" ELSE "read"]
    /\ lastOp' = Op("resolve_references_by_section", rs[w].section_id,
                    rs[w].target_chunk_id, 0, Cardinality(rs[w].references))
    /\ UNCHANGED <<docs, nextChunk, nextRef, ex, lc, sc, hp, pipeVars>>

NextResolve ==
    \E w \in Workers :
        \/ \E s \in Sections, t \in 1..2 : RsRead(w, s, t)
        \/ \E batch \in SUBSET (1..Len(ResolvePool)) : RsCommit(w, batch)

SpecResolve == InitResolve /\ [][NextResolve]_vars

GraphChunks == 1..4
EdgePool ==
    << [source_chunk_id |-> 1, target_chunk_id |-> 2, target_section_id |-> "S1",
        reference_text |-> "S1", reference_strength |-> "required", is_resolved |-> TRUE],
       [source_chunk_id |-> 1, target_chunk_id |-> 3, target_section_id |-> "S2",
        reference_text |-> "S2", reference_strength |-> "recommended", is_resolved |-> TRUE],
       [source_chunk_id |-> 2, target_chunk_id |-> 4, target_section_id |-> NoSection,
        reference_text |-> "S1", reference_strength |-> "required", is_resolved |-> TRUE],
       [source_chunk_id |-> 3, target_chunk_id |-> 4, target_section_id |-> NoSection,
        reference_text |-> "S1", reference_strength |-> "optional", is_resolved |-> TRUE],
       [source_chunk_id |-> 4, target_chunk_id |-> 1, target_section_id |-> NoSection,
        reference_text |-> "S2", reference_strength |-> "required", is_resolved |-> TRUE],
       [source_chunk_id |-> 1, target_chunk_id |-> NoChunk, target_section_id |-> "S2",
        reference_text |-> "S2", reference_strength |-> "required", is_resolved |-> FALSE],
       [source_chunk_id |-> 1, target_chunk_id |-> 4, target_section_id |-> NoSection,
        reference_text |-> "S1", reference_strength |-> "required", is_resolved |-> FALSE] >>

\* app/schema/chunk_reference.py: ReferenceExpansionRequest.max_depth (le=3)
MaxDepthLimit == 3
MaxTotal == 3
MaxSeeds == 2

SeedLists == UNION {[1..n -> GraphChunks] : n \in 0..MaxSeeds}
\* strength_filter: None, or a list of strengths
FilterInputs == {[given |-> FALSE, set |-> {}]} \cup
                {[given |-> TRUE, set |-> S] : S \in {{"required"}, {"required", "recommended", "optional"}}}

InitExpand ==
    /\ docs = [u \in {"u1"} |-> DocRow(NoHash, "completed", 4)]
    /\ chunks = [c \in GraphChunks |-> ChunkRow("u1", c - 1, 4, NoSection, << >>)]
    /\ \E E \in SUBSET (1..Len(EdgePool)) : refs = [r \in E |-> EdgePool[r]]
    /\ nextChunk = 5
    /\ nextRef = Len(EdgePool) + 1
    /\ lastOp = Op("init", NoSection, NoChunk, 0, 0)
    /\ ex = ExIdle
    /\ PipeIdle
    /\ cfg = DefaultConfig

\* expand_references, lines 224-225: the default strength filter
StrengthFilterOrDefault(f) == IF f.given THEN f.set ELSE {"required", "recommended"}

Range(q) == {q[i] : i \in 1..Len(q)}

\* expand_references, lines 224-229: the frame after the prologue
ExpandCall(chunk_ids, max_depth, strength_filter, max_total_chunks) ==
    /\ ex.pc = "idle"
    /\ ex' = [pc |-> "loop", seeds |-> chunk_ids, max_depth |-> max_depth,
              strength_filter |-> StrengthFilterOrDefault(strength_filter),
              max_total |-> max_total_chunks,
              all_chunk_ids |-> Range(chunk_ids), current_chunks |-> Range(chunk_ids),
              new_chunk_ids |-> {}, pending |-> {}, depth |-> 0, all_references |-> {}]
    /\ UNCHANGED <<dbVars, lastOp, rs, lc, sc, hp, pipeVars>>

HopQuery_Unresolved(rf, current, filter) ==
    {r \in DOMAIN rf : /\ rf[r].source_chunk_id \in current
                       /\ rf[r].reference_strength \in filter}

\* expand_references, lines 236-242: the query of one hop
HopQuery(rf, current, filter) ==
    {r \in DOMAIN rf : /\ rf[r].source_chunk_id \in current
                       /\ rf[r].is_resolved
                       /\ rf[r].reference_strength \in filter}

HopAllowed_AnyDepth(e) == ~(Cardinality(e.all_chunk_ids) >= e.max_total)

\* expand_references, lines 231-233: the loop head
HopAllowed(e) == e.depth < e.max_depth /\ ~(Cardinality(e.all_chunk_ids) >= e.max_total)

\* expand_references, lines 231-242: one iteration starts, or the loop ends
ExpandHop ==
    /\ ex.pc = "loop"
    /\ IF HopAllowed(ex)
       THEN ex' = [ex EXCEPT !.pc = "iter", !.new_chunk_ids = {},
                             !.pending = HopQuery(refs, ex.current_chunks, ex.strength_filter)]
       ELSE ex' = [ex EXCEPT !.pc = "done"]
    /\ UNCHANGED <<dbVars, lastOp, rs, lc, sc, hp, pipeVars>>

\* expand_references, lines 252-253: the inner break
VisitStops(e, ids) == Cardinality(ids) >= e.max_total

\* expand_references, lines 246-253: one row of the query result, in whatever
\* order the store returned the rows
ExpandVisit(r) ==
    /\ ex.pc = "iter"
    /\ r \in ex.pending
    /\ LET t == refs[r].target_chunk_id
       IN  IF t # NoChunk /\ t \notin ex.all_chunk_ids
           THEN LET ids == ex.all_chunk_ids \cup {t}
                IN  ex' = [ex EXCEPT !.new_chunk_ids = @ \cup {t},
                                     !.all_chunk_ids = ids,
                                     !.all_references = @ \cup {r},
                                     !.pending = IF VisitStops(ex, ids) THEN {} ELSE @ \ {r}]
           ELSE ex' = [ex EXCEPT !.pending = @ \ {r}]
    /\ UNCHANGED <<dbVars, lastOp, rs, lc, sc, hp, pipeVars>>

\* expand_references, lines 255-258: the end of one iteration
ExpandEndHop ==
    /\ ex.pc = "iter"
    /\ ex.pending = {}
    /\ ex' = [ex EXCEPT !.current_chunks = ex.new_chunk_ids,
                        !.depth = @ + 1,
                        !.pc = IF ex.new_chunk_ids = {} THEN "done" ELSE "loop"]
    /\ UNCHANGED <<dbVars, lastOp, rs, lc, sc, hp, pipeVars>>

\* expand_references, line 260
ExpandReturn ==
    /\ ex.pc = "done"
    /\ ex' = [ex EXCEPT !.pc = "returned"]
    /\ UNCHANGED <<dbVars, lastOp, rs, lc, sc, hp, pipeVars>>

NextExpand ==
    \/ \E q \in SeedLists, d \in 1..MaxDepthLimit, f \in FilterInputs, m \in 1..MaxTotal :
          ExpandCall(q, d, f, m)
    \/ ExpandHop
    \/ \E r \in RefIds \cup (1..Len(EdgePool)) : ExpandVisit(r)
    \/ ExpandEndHop
    \/ ExpandReturn

SpecExpand == InitExpand /\ [][NextExpand]_vars

\* ------------------------------------------------------ claims on traversal
\* C6: expand_references never returns more than max_total chunk ids, for any
\* seed list, reference graph, max_depth and strength filter.
C6_AtMostMaxTotal ==
    ex.pc = "returned" => Cardinality(ex.all_chunk_ids) <= ex.max_total

\* the rows the walk may follow: resolved, of a strength in the filter
FollowableRows == {r \in DOMAIN refs : /\ refs[r].is_resolved
                                       /\ refs[r].target_chunk_id # NoChunk
                                       /\ refs[r].reference_strength \in ex.strength_filter}

\* the chunks within n such rows of the set S
RECURSIVE WithinHops(_, _)
WithinHops(S, n) ==
    IF n = 0 THEN S
    ELSE WithinHops(S \cup {refs[r].target_chunk_id :
                                r \in {x \in FollowableRows : refs[x].source_chunk_id \in S}},
                    n - 1)

\* C16: every row expand_references followed is resolved and of a strength in
\* strength_filter, and every id it returns is a seed or is reached from a seed
\* along such rows.
C16_OnlyFilteredResolvedEdges ==
    ex.pc = "returned" =>
        /\ ex.all_references \subseteq FollowableRows
        /\ ex.all_chunk_ids \subseteq WithinHops(Range(ex.seeds), Cardinality(GraphChunks))

\* a walk returned a chunk that is no seed and left out the target of a row
\* that starts at a returned chunk but is unresolved or of another strength
C16_Witness ==
    /\ ex.pc = "returned"
    /\ ex.all_chunk_ids # Range(ex.seeds)
    /\ \E r \in DOMAIN refs \ FollowableRows :
           /\ refs[r].source_chunk_id \in ex.all_chunk_ids
           /\ refs[r].target_chunk_id \in GraphChunks \ ex.all_chunk_ids
           /\ Cardinality(ex.all_chunk_ids) < ex.max_total
           /\ ex.depth < ex.max_depth

\* C17: at every point of the walk the number of hops made is at most
\* max_depth, and every id collected is within max_depth followable rows of a
\* seed.
C17_AtMostMaxDepthHops ==
    ex.pc # "idle" =>
        /\ ex.depth <= ex.max_depth
        /\ ex.all_chunk_ids \subseteq WithinHops(Range(ex.seeds), ex.max_depth)

\* a walk returned after max_depth hops, below max_total, while a followable
\* row leads from its last frontier to a chunk it did not collect
C17_Witness ==
    /\ ex.pc = "returned"
    /\ ex.depth = ex.max_depth
    /\ Cardinality(ex.all_chunk_ids) < ex.max_total
    /\ \E r \in FollowableRows :
           /\ refs[r].source_chunk_id \in ex.current_chunks
           /\ refs[r].target_chunk_id \notin ex.all_chunk_ids

\* ------------------------------------------------------- the source pages
Versions == 0..MaxVersion
\* parsed_doc.full_text of version v of the page at u
Text(u, v) == <<u, v>>
\* pipeline.py: _compute_content_hash (a digest: equal exactly for equal text)
ComputeContentHash(text) == <<"sha256">> \o text
\* the number of pieces _chunk_section cuts each section of version v into
\* (0 for a section below min_content_length); v pieces in all
SectionPieces(v) ==
    IF v = 0 THEN << >>
    ELSE IF v = 1 THEN <<1>>
    ELSE IF v = 2 THEN <<1, 0, 1>>
    ELSE <<2, 0, v - 2>>

\* chunker.py / legal_chunker.py: chunk_document, the loop over the sections:
\* _chunk_section numbers its pieces start_index + i, and current_index
\* advances by the number of pieces
RECURSIVE ChunkSections(_, _, _)
ChunkSections(P, k, current_index) ==
    IF k > Len(P) THEN << >>
    ELSE [i \in 1..P[k] |-> current_index + (i - 1)]
             \o ChunkSections(P, k + 1, current_index + P[k])

\* chunker.py / legal_chunker.py: chunk_document: the chunks of version v,
\* each with its chunk_index and the total set on all of them at the end
chunk_document(v) ==
    LET all_chunks == ChunkSections(SectionPieces(v), 1, 0)
    IN  [i \in 1..Len(all_chunks) |->
            [chunk_index |-> all_chunks[i], total_chunks |-> Len(all_chunks)]]

\* the number of passages version v is split into
NumChunks(v) == Len(chunk_document(v))
\* what a fetch and parse of a page can come to
FetchOutcomes == {"ok", "no_content", "too_short", "not_found", "api_error", "exception"}

\* crud_chunk.get_chunks_by_document: default page size
ChunkPageLimit == 100

\* crud_chunk.get_chunks_by_document(db, document_id): the first page, by chunk_index
get_chunks_by_document(d) ==
    LET S == {c \in DOMAIN chunks : chunks[c].document_id = d}
        Before(a, b) == \/ chunks[a].chunk_index < chunks[b].chunk_index
                        \/ chunks[a].chunk_index = chunks[b].chunk_index /\ a < b
    IN  {c \in S : Cardinality({a \in S : Before(a, c)}) < ChunkPageLimit}

\* a check that re-processes a document whose hash is unchanged
should_process_document_Always(u, content_hash) ==
    IF u \notin DOMAIN docs THEN [go |-> TRUE, reason |-> "new"]
    ELSE [go |-> TRUE, reason |-> "content_changed"]

\* pipeline.py: IngestionPipeline._should_process_document
should_process_document(u, content_hash) ==
    IF u \notin DOMAIN docs THEN [go |-> TRUE, reason |-> "new"]
    ELSE IF cfg.mode = "skip_existing" THEN [go |-> FALSE, reason |-> "skip_existing"]
    ELSE IF cfg.mode = "update_if_changed"
         THEN IF docs[u].content_hash = content_hash
              THEN [go |-> FALSE, reason |-> "unchanged"]
              ELSE [go |-> TRUE, reason |-> "content_changed"]
    ELSE [go |-> TRUE, reason |-> "force_update"]

\* ingest_url returns its result
Returned(f, act, succ, err, n) ==
    [f EXCEPT !.pc = "returned", !.action = act, !.success = succ,
              !.error = err, !.chunks_created = n]

\* the errors that reach ingest_url's except clauses
Exceptions == {"not_found", "api_error", "exception", "integrity_error",
               "persistence_error", "validation_error", "extractor_error"}

\* an except clause that reports the document as skipped and counts nothing
BasicFail_Silent(w, err) ==
    /\ wk' = [wk EXCEPT ![w] = Returned(@, "skipped", FALSE, err, 0)]
    /\ UNCHANGED <<errCount, log>>

\* pipeline.py: ingest_url, the except clauses (lines 488-512)
BasicFail(w, err) ==
    /\ wk' = [wk EXCEPT ![w] = Returned(@, "failed", FALSE, err, 0)]
    /\ errCount' = [errCount EXCEPT ![w] = @ + 1]
    /\ log' = Append(log, wk[w].url)

\* a direct call of ingest_url(u) on worker w's pipeline object
IngestCall(w, u) ==
    /\ wk[w].pc \in {"idle", "returned"}
    /\ wk[w].calls < MaxCalls
    /\ run.pc = "idle"
    /\ wk' = [wk EXCEPT ![w] = [WkIdle EXCEPT !.pc = "start", !.url = u,
                                             !.calls = wk[w].calls + 1]]
    /\ UNCHANGED <<dbVars, lastOp, ex, rs, lc, sc, hp, facts, cfg, errCount, run, log>>

\* pipeline.py: ingest_url steps 1-5 (fetch, parse, hash, the stored-hash check,
\* chunking); reads the store, writes nothing
BasicCheck(w, out, v) ==
    /\ cfg.kind = "basic"
    /\ wk[w].pc = "start"
    /\ out # "ok" => v = 0
    /\ LET u == wk[w].url
           h == ComputeContentHash(Text(u, v))
           sp == should_process_document(u, h)
       IN  IF out \in {"not_found", "api_error", "exception"}
           THEN BasicFail(w, out)
           ELSE /\ wk' = [wk EXCEPT ![w] =
                     IF out \in {"no_content", "too_short"}
                     THEN Returned(@, "skipped", FALSE, out, 0)
                     ELSE IF ~sp.go
                     THEN Returned([@ EXCEPT !.version = v, !.hash = h, !.reason = sp.reason,
                                             !.existing = u \in DOMAIN docs],
                                   "skipped", TRUE, "none", 0)
                     ELSE IF NumChunks(v) = 0
                     THEN Returned([@ EXCEPT !.version = v, !.hash = h, !.reason = sp.reason,
                                             !.existing = u \in DOMAIN docs],
                                   "skipped", FALSE, "no_chunks", 0)
                     ELSE [@ EXCEPT !.pc = "write", !.version = v, !.hash = h,
                                    !.reason = sp.reason, !.existing = u \in DOMAIN docs]]
                /\ UNCHANGED <<errCount, log>>
    /\ UNCHANGED <<dbVars, lastOp, ex, rs, lc, sc, hp, facts, cfg, run>>

\* a delete that leaves the structured_* rows of the chunks in place
WithoutChunks_KeepFacts(gone) ==
    /\ chunks' = Restrict(chunks, DOMAIN chunks \ gone)
    /\ refs' = Restrict(refs, {r \in DOMAIN refs :
                                  /\ refs[r].source_chunk_id \notin gone
                                  /\ refs[r].target_chunk_id \notin gone})
    /\ facts' = facts

\* rows that go with deleted chunks (ondelete CASCADE / delete-orphan)
WithoutChunks(gone) ==
    /\ chunks' = Restrict(chunks, DOMAIN chunks \ gone)
    /\ refs' = Restrict(refs, {r \in DOMAIN refs :
                                  /\ refs[r].source_chunk_id \notin gone
                                  /\ refs[r].target_chunk_id \notin gone})
    /\ facts' = {f \in facts : f.chunk_id \notin gone}

\* pipeline.py: _delete_existing_chunks (ingest_url line 457)
BasicDeleteExisting(w) ==
    /\ cfg.kind = "basic"
    /\ wk[w].pc = "write"
    /\ wk[w].existing
    /\ WithoutChunks(get_chunks_by_document(wk[w].url))
    /\ wk' = [wk EXCEPT ![w].pc = "update", ![w].wrote = TRUE]
    /\ UNCHANGED <<docs, nextChunk, nextRef, lastOp, ex, rs, lc, sc, hp, cfg, errCount, run, log>>

\* pipeline.py: _update_document_record (ingest_url lines 458-461)
BasicUpdateDocument(w) ==
    /\ cfg.kind = "basic"
    /\ wk[w].pc = "update"
    /\ wk[w].url \in DOMAIN docs
    /\ docs' = [docs EXCEPT ![wk[w].url].content_hash = wk[w].hash,
                            ![wk[w].url].ingestion_status = "pending"]
    /\ wk' = [wk EXCEPT ![w].pc = "chunks", ![w].action = "updated"]
    /\ UNCHANGED <<chunks, refs, nextChunk, nextRef, lastOp, ex, rs, lc, sc, hp, facts, cfg, errCount, run, log>>

\* pipeline.py: _create_document_record (ingest_url lines 463-466); the url
\* column is unique, so a second row for the URL raises
BasicCreateDocument(w) ==
    /\ cfg.kind = "basic"
    /\ wk[w].pc = "write"
    /\ ~wk[w].existing
    /\ IF wk[w].url \in DOMAIN docs
       THEN BasicFail(w, "integrity_error") /\ UNCHANGED docs
       ELSE /\ create_document(wk[w].url)
            /\ wk' = [wk EXCEPT ![w].pc = "chunks", ![w].action = "created", ![w].wrote = TRUE]
            /\ UNCHANGED <<errCount, log>>
    /\ UNCHANGED <<chunks, refs, nextChunk, nextRef, lastOp, ex, rs, lc, sc, hp, facts, cfg, run>>

\* crud_chunk.create_chunks_batch for the n passages of a document
ChunksAdded(d, cs, sec, txt) ==
    [c \in DOMAIN chunks \cup (nextChunk..(nextChunk + Len(cs) - 1)) |->
        IF c \in DOMAIN chunks THEN chunks[c]
        ELSE ChunkRow(d, cs[c - nextChunk + 1].chunk_index, cs[c - nextChunk + 1].total_chunks,
                      IF c = nextChunk THEN sec ELSE NoSection, txt)]

\* pipeline.py: _create_chunk_records (ingest_url line 469)
BasicCreateChunks(w) ==
    /\ cfg.kind = "basic"
    /\ wk[w].pc = "chunks"
    /\ LET n == NumChunks(wk[w].version)
       IN  /\ chunks' = ChunksAdded(wk[w].url, chunk_document(wk[w].version), NoSection,
                                    Text(wk[w].url, wk[w].version))
           /\ nextChunk' = nextChunk + n
    /\ wk' = [wk EXCEPT ![w].pc = "final", ![w].wrote = TRUE]
    /\ UNCHANGED <<docs, refs, nextRef, lastOp, ex, rs, lc, sc, hp, facts, cfg, errCount, run, log>>

\* pipeline.py: ingest_url lines 471-480
BasicFinalize(w) ==
    /\ cfg.kind = "basic"
    /\ wk[w].pc = "final"
    /\ wk[w].url \in DOMAIN docs
    /\ docs' = [docs EXCEPT ![wk[w].url].total_chunks = NumChunks(wk[w].version),
                            ![wk[w].url].ingestion_status = "completed"]
    /\ wk' = [wk EXCEPT ![w] = Returned(@, @.action, TRUE, "none", NumChunks(wk[w].version))]
    /\ UNCHANGED <<chunks, refs, nextChunk, nextRef, lastOp, ex, rs, lc, sc, hp, facts, cfg, errCount, run, log>>

\* a store write of ingest_url raises: the except clause of lines 500-512
BasicPersistFail(w) ==
    /\ cfg.kind = "basic"
    /\ wk[w].pc \in {"write", "update", "chunks", "final"}
    /\ BasicFail(w, "persistence_error")
    /\ UNCHANGED <<dbVars, lastOp, ex, rs, lc, sc, hp, facts, cfg, run>>

\* ------------------------------------------------------------------ run()
RunLists == UNION {[1..n -> URLs] : n \in 0..MaxRunLen}

\* pipeline.py: run, lines 533-563
BasicRunStartWithin(urls, max_runs) ==
    /\ cfg.kind = "basic"
    /\ run.pc \in {"idle", "finished"}
    /\ run.runs < max_runs
    /\ wk[1].pc \in {"idle", "returned"}
    /\ errCount' = [errCount EXCEPT ![1] = 0]
    /\ UNCHANGED log
    /\ run' = [RunIdle EXCEPT !.pc = "loop", !.urls = urls, !.runs = run.runs + 1]
    /\ UNCHANGED <<dbVars, lastOp, ex, rs, lc, sc, hp, facts, cfg, wk>>

BasicRunStart(urls) == BasicRunStartWithin(urls, MaxRuns)

\* a ceiling that trips one failure late
CeilingReached_Late(count, max_errors) == count > max_errors

\* pipeline.py: run, line 568 (enhanced_pipeline.py: run, line 624)
CeilingReached(count, max_errors) == count >= max_errors

\* pipeline.py: run, lines 566-577: the loop head
BasicRunLoop ==
    /\ cfg.kind = "basic"
    /\ run.pc = "loop"
    /\ IF run.i >= Len(run.urls)
       THEN run' = [run EXCEPT !.pc = "finalize"] /\ UNCHANGED wk
       ELSE IF CeilingReached(errCount[1], cfg.max_errors)
       THEN run' = [run EXCEPT !.pc = "finalize", !.stopped = TRUE] /\ UNCHANGED wk
       ELSE /\ run' = [run EXCEPT !.pc = "ingesting"]
            /\ wk' = [wk EXCEPT ![1] = [WkIdle EXCEPT !.pc = "start",
                                                     !.url = run.urls[run.i + 1]]]
    /\ UNCHANGED <<dbVars, lastOp, ex, rs, lc, sc, hp, facts, cfg, errCount, log>>

ResultOf(f) == [url |-> f.url, action |-> f.action, success |-> f.success,
                error |-> f.error, chunks_created |-> f.chunks_created]

\* pipeline.py: run, lines 578-590: the counters after one ingest_url
BasicRunAccount ==
    /\ cfg.kind = "basic"
    /\ run.pc = "ingesting"
    /\ wk[1].pc = "returned"
    /\ LET r == ResultOf(wk[1])
       IN  run' = [run EXCEPT
                !.pc = "loop", !.i = @ + 1, !.results = Append(@, r),
                !.docs_created = IF r.action = "created" THEN @ + 1 ELSE @,
                !.docs_updated = IF r.action = "updated" THEN @ + 1 ELSE @,
                !.docs_skipped = IF r.action = "skipped" THEN @ + 1 ELSE @,
                !.docs_failed = IF r.action \notin {"created", "updated", "skipped"}
                                THEN @ + 1 ELSE @,
                !.total_chunks = IF r.action \in {"created", "updated"}
                                 THEN @ + r.chunks_created ELSE @]
    /\ UNCHANGED <<dbVars, lastOp, ex, rs, lc, sc, hp, facts, cfg, wk, errCount, log>>

\* pipeline.py: run, lines 613-656: the final status and the PipelineResult
BasicRunFinish ==
    /\ cfg.kind = "basic"
    /\ run.pc = "finalize"
    /\ run' = [run EXCEPT !.pc = "finished",
                  !.status = IF run.docs_failed > 0 /\ run.docs_failed = Len(run.urls)
                             THEN "failed"
                             ELSE IF run.docs_failed > 0 THEN "completed_with_errors"
                             ELSE "completed"]
    /\ UNCHANGED <<dbVars, lastOp, ex, rs, lc, sc, hp, facts, cfg, wk, errCount, log>>

\* ------------------------------------------------- the enhanced pipeline
\* an order that stores the cross-references before the structured facts
ExtractorOrder_ReferencesFirst ==
    <<"reference", "table", "formula", "deadline", "contact", "condition_list", "example">>

\* enhanced_pipeline.py: ingest_url, step 7: the extractors in source order
ExtractorOrder ==
    <<"table", "formula", "deadline", "contact", "condition_list", "example", "reference">>
NumExtractors == Len(ExtractorOrder)

\* the has_* detectors on version v of a page
Detected(u, v) ==
    IF v = 0 THEN {}
    ELSE IF v = 1 THEN {"table", "reference"}
    ELSE {"formula", "deadline", "contact", "condition_list", "example", "reference"}

\* the kinds of content a chunk row has a contains_* column for
FlaggedKinds == {"table", "deadline", "condition_list", "example"}

\* legal_chunker.py: _chunk_section: the contains_* flags of the passage with
\* the given chunk_index, set from that passage's own text.  Version 1 has its
\* table in its only passage; later versions have the example in the first
\* passage and the deadline and the condition list in the second.
PresenceFlags(v, chunk_index) ==
    IF v = 0 THEN {}
    ELSE IF v = 1 THEN (IF chunk_index = 0 THEN {"table"} ELSE {})
    ELSE IF chunk_index = 0 THEN {"example"}
    ELSE IF chunk_index = 1 THEN {"deadline", "condition_list"}
    ELSE {}

\* the contains_* columns of a stored chunk row
ContainsFlags(row) ==
    IF row.content = << >> THEN {} ELSE PresenceFlags(row.content[2], row.chunk_index)

\* legal_chunker: the section id the page's first passage carries
SectionOf(u) == IF u = "u1" THEN "S1" ELSE "S2"
\* reference_detector: the section id the page's text cites
Cites(u) == IF u = "u1" THEN "S2" ELSE "S1"

\* enhanced_pipeline.py: ingest_url, the except clauses (lines 595-603):
\* the result is marked failed; _error_count is left to run()
EnhFail(w, err) ==
    /\ wk' = [wk EXCEPT ![w] = Returned(@, "failed", FALSE, err, @.chunks_created)]
    /\ log' = Append(log, wk[w].url)
    /\ UNCHANGED errCount

\* enhanced_pipeline.py: ingest_url, lines 322-376 (fetch, parse, hash and the
\* stored-hash check).  gov_uk_client.fetch returns a page or raises; the
\* GovUKClient of this repository has no method fetch, which is outcome
\* "exception".
EnhCheck(w, out, v) ==
    /\ cfg.kind = "enhanced"
    /\ wk[w].pc = "start"
    /\ out # "ok" => v = 0
    /\ LET u == wk[w].url
           h == ComputeContentHash(Text(u, v))
       IN  IF out \in Exceptions
           THEN EnhFail(w, out)
           ELSE /\ wk' = [wk EXCEPT ![w] =
                     IF out \in {"no_content", "too_short"}
                     THEN Returned(@, "skipped", FALSE, out, 0)
                     ELSE IF u \in DOMAIN docs /\ docs[u].content_hash = h
                     THEN Returned([@ EXCEPT !.version = v, !.hash = h, !.existing = TRUE,
                                             !.reason = "unchanged"],
                                   "skipped", TRUE, "none", 0)
                     ELSE [@ EXCEPT !.pc = "write", !.version = v, !.hash = h,
                                    !.existing = u \in DOMAIN docs,
                                    !.action = IF u \in DOMAIN docs THEN "updated"
                                               ELSE "created",
                                    !.kinds = Detected(u, v)]]
                /\ UNCHANGED <<errCount, log>>
    /\ UNCHANGED <<dbVars, lastOp, ex, rs, lc, sc, hp, facts, cfg, run>>

\* enhanced_pipeline.py: ingest_url, lines 378-398: DocumentCreate(...) then
\* create_document, for a new and for a changed document alike.  built = FALSE
\* is DocumentCreate rejecting the keywords (schema/document.py requires
\* `authority`, which is not passed); a row for a URL already stored violates
\* the unique url column.
EnhCreateDocument(w, built) ==
    /\ cfg.kind = "enhanced"
    /\ wk[w].pc = "write"
    /\ IF ~built
       THEN EnhFail(w, "validation_error") /\ UNCHANGED docs
       ELSE IF wk[w].url \in DOMAIN docs
       THEN EnhFail(w, "integrity_error") /\ UNCHANGED docs
       ELSE /\ create_document(wk[w].url)
            /\ wk' = [wk EXCEPT ![w].pc = "chunks", ![w].wrote = TRUE]
            /\ UNCHANGED <<errCount, log>>
    /\ UNCHANGED <<chunks, refs, nextChunk, nextRef, lastOp, ex, rs, lc, sc, hp, facts, cfg, run>>

\* enhanced_pipeline.py: ingest_url, lines 400-446: chunk, ChunkCreate(...) per
\* passage, create_chunks_batch.  built = FALSE is ChunkCreate rejecting the
\* keywords.
EnhCreateChunks(w, built) ==
    /\ cfg.kind = "enhanced"
    /\ wk[w].pc = "chunks"
    /\ LET n == NumChunks(wk[w].version)
       IN  IF ~built /\ n > 0
           THEN EnhFail(w, "validation_error") /\ UNCHANGED <<chunks, nextChunk>>
           ELSE /\ chunks' = ChunksAdded(wk[w].url, chunk_document(wk[w].version),
                                         SectionOf(wk[w].url),
                                         Text(wk[w].url, wk[w].version))
                /\ nextChunk' = nextChunk + n
                /\ wk' = [wk EXCEPT ![w].pc = IF n > 0 THEN "extract" ELSE "done",
                                    ![w].chunks_created = n,
                                    ![w].first_chunk = IF n > 0 THEN nextChunk ELSE NoChunk]
                /\ UNCHANGED <<errCount, log>>
    /\ UNCHANGED <<docs, refs, nextRef, lastOp, ex, rs, lc, sc, hp, facts, cfg, run>>

\* crud_structured_content.create_*: one record of the kind on the chunk
FactRow(kind, c, d) == [kind |-> kind, chunk_id |-> c, document_id |-> d]

\* the row enhanced_pipeline.py line 577 builds: target_identifier is no field
\* of ChunkReferenceCreate, so the target section is not stored
DetectedReference(c, u) ==
    [source_chunk_id |-> c, target_chunk_id |-> NoChunk, target_section_id |-> NoSection,
     reference_text |-> Cites(u), reference_strength |-> "recommended",
     is_resolved |-> FALSE]

\* enhanced_pipeline.py: an extractor raises inside the one try block of
\* ingest_url (lines 322-603)
ExtractorRaises(w) == EnhFail(w, "extractor_error")

\* enhanced_pipeline.py: ingest_url, lines 448-587: the next extractor block.
\* It is passed over when its detector does not fire; otherwise the extractor
\* returns one item that is stored on the first chunk, or it raises.
EnhExtract(w, returns) ==
    /\ cfg.kind = "enhanced"
    /\ wk[w].pc = "extract"
    /\ wk[w].xi <= NumExtractors
    /\ LET kind == ExtractorOrder[wk[w].xi]
           c == wk[w].first_chunk
       IN  IF kind \notin wk[w].kinds
           THEN /\ returns
                /\ wk' = [wk EXCEPT ![w].xi = @ + 1]
                /\ UNCHANGED <<facts, refs, nextRef, chunks, log, errCount>>
           ELSE IF ~returns
           THEN ExtractorRaises(w) /\ UNCHANGED <<facts, refs, nextRef, chunks>>
           ELSE IF kind = "reference"
           THEN /\ refs' = Extend(refs, nextRef, RefRow(DetectedReference(c, wk[w].url)))
                /\ nextRef' = nextRef + 1
                /\ chunks' = RaiseOutgoing(chunks, {c})
                /\ wk' = [wk EXCEPT ![w].xi = @ + 1]
                /\ UNCHANGED <<facts, log, errCount>>
           ELSE /\ facts' = facts \cup {FactRow(kind, c, wk[w].url)}
                /\ wk' = [wk EXCEPT ![w].xi = @ + 1]
                /\ UNCHANGED <<refs, nextRef, chunks, log, errCount>>
    /\ UNCHANGED <<docs, nextChunk, lastOp, ex, rs, lc, sc, hp, cfg, run>>

\* enhanced_pipeline.py: ingest_url, lines 589-593, 605
EnhReturn(w) ==
    /\ cfg.kind = "enhanced"
    /\ \/ wk[w].pc = "done"
       \/ wk[w].pc = "extract" /\ wk[w].xi > NumExtractors
    /\ wk' = [wk EXCEPT ![w] = Returned(@, @.action, TRUE, "none", @.chunks_created)]
    /\ UNCHANGED <<dbVars, lastOp, ex, rs, lc, sc, hp, facts, cfg, errCount, run, log>>

\* enhanced_pipeline.py: run, lines 611-620.  logged = FALSE is
\* create_ingestion_log rejecting the keyword run_type (crud_ingestion_log.py
\* takes source_type): the error leaves run() before the loop.
\* _error_count is not reset.
EnhRunStartWithin(urls, logged, max_runs) ==
    /\ cfg.kind = "enhanced"
    /\ run.pc \in {"idle", "finished", "raised"}
    /\ run.runs < max_runs
    /\ wk[1].pc \in {"idle", "returned"}
    /\ run' = [RunIdle EXCEPT !.pc = IF logged THEN "loop" ELSE "raised",
                              !.urls = urls, !.runs = run.runs + 1]
    /\ UNCHANGED <<dbVars, lastOp, ex, rs, lc, sc, hp, facts, cfg, wk, errCount, log>>

EnhRunStart(urls, logged) == EnhRunStartWithin(urls, logged, MaxRuns)

\* enhanced_pipeline.py: run, lines 623-627: the loop head
EnhRunLoop ==
    /\ cfg.kind = "enhanced"
    /\ run.pc = "loop"
    /\ IF run.i >= Len(run.urls)
       THEN run' = [run EXCEPT !.pc = "finalize"] /\ UNCHANGED wk
       ELSE IF CeilingReached(errCount[1], cfg.max_errors)
       THEN run' = [run EXCEPT !.pc = "finalize", !.stopped = TRUE] /\ UNCHANGED wk
       ELSE /\ run' = [run EXCEPT !.pc = "ingesting"]
            /\ wk' = [wk EXCEPT ![1] = [WkIdle EXCEPT !.pc = "start",
                                                     !.url = run.urls[run.i + 1]]]
    /\ UNCHANGED <<dbVars, lastOp, ex, rs, lc, sc, hp, facts, cfg, errCount, log>>

\* enhanced_pipeline.py: run, lines 628-650: the counters after one ingest_url
EnhRunAccount ==
    /\ cfg.kind = "enhanced"
    /\ run.pc = "ingesting"
    /\ wk[1].pc = "returned"
    /\ LET r == ResultOf(wk[1])
       IN  /\ run' = [run EXCEPT
                !.pc = "loop", !.i = @ + 1, !.results = Append(@, r),
                !.docs_created = IF r.success /\ r.action = "created" THEN @ + 1 ELSE @,
                !.docs_updated = IF r.success /\ r.action = "updated" THEN @ + 1 ELSE @,
                !.docs_skipped = IF r.success /\ r.action = "skipped" THEN @ + 1 ELSE @,
                !.docs_failed = IF ~r.success THEN @ + 1 ELSE @,
                !.total_chunks = IF r.success THEN @ + r.chunks_created ELSE @]
           /\ errCount' = [errCount EXCEPT ![1] = IF ~r.success THEN @ + 1 ELSE @]
    /\ UNCHANGED <<dbVars, lastOp, ex, rs, lc, sc, hp, facts, cfg, wk, log>>

\* enhanced_pipeline.py: run, lines 652-665
EnhRunFinish ==
    /\ cfg.kind = "enhanced"
    /\ run.pc = "finalize"
    /\ run' = [run EXCEPT !.pc = "finished", !.status = "completed"]
    /\ UNCHANGED <<dbVars, lastOp, ex, rs, lc, sc, hp, facts, cfg, wk, errCount, log>>

\* ------------------------------------------------- the orchestrator's runs
Configs ==
    {c \in [kind : {"basic", "enhanced"}, mode : Modes, max_errors : 0..MaxErrorsBound] :
        c.kind = "enhanced" => c.mode = "update_if_changed"}

InitPipe == InitDb /\ ex = ExIdle /\ PipeIdle /\ cfg \in Configs

BasicIngestStep(w) ==
    \/ \E out \in FetchOutcomes, v \in Versions : BasicCheck(w, out, v)
    \/ BasicDeleteExisting(w)
    \/ BasicUpdateDocument(w)
    \/ BasicCreateDocument(w)
    \/ BasicCreateChunks(w)
    \/ BasicFinalize(w)
    \/ BasicPersistFail(w)

EnhIngestStep(w) ==
    \/ \E out \in FetchOutcomes, v \in Versions : EnhCheck(w, out, v)
    \/ \E built \in BOOLEAN : EnhCreateDocument(w, built)
    \/ \E built \in BOOLEAN : EnhCreateChunks(w, built)
    \/ \E returns \in BOOLEAN : EnhExtract(w, returns)
    \/ EnhReturn(w)

NextPipe ==
    \/ \E urls \in RunLists : BasicRunStart(urls)
    \/ BasicRunLoop
    \/ BasicIngestStep(1)
    \/ BasicRunAccount
    \/ BasicRunFinish
    \/ \E urls \in RunLists, logged \in BOOLEAN : EnhRunStart(urls, logged)
    \/ EnhRunLoop
    \/ EnhIngestStep(1)
    \/ EnhRunAccount
    \/ EnhRunFinish

SpecPipe == InitPipe /\ [][NextPipe]_vars

\* ------------------------------------- several runs on one pipeline object
MaxRunsInRow == 2
MaxRowLen == 1

\* the runs of one pipeline object, one after the other, each over a short list
RowLists == UNION {[1..n -> URLs] : n \in 0..MaxRowLen}
RowConfigs == {c \in Configs : c.mode = "update_if_changed"}

InitRuns == InitDb /\ ex = ExIdle /\ PipeIdle /\ cfg \in RowConfigs

NextRuns ==
    \/ \E urls \in RowLists : BasicRunStartWithin(urls, MaxRunsInRow)
    \/ BasicRunLoop
    \/ BasicIngestStep(1)
    \/ BasicRunAccount
    \/ BasicRunFinish
    \/ \E urls \in RowLists, logged \in BOOLEAN :
          EnhRunStartWithin(urls, logged, MaxRunsInRow)
    \/ EnhRunLoop
    \/ EnhIngestStep(1)
    \/ EnhRunAccount
    \/ EnhRunFinish

SpecRuns == InitRuns /\ [][NextRuns]_vars

\* ------------------------------------------- two workers on one store
ConcUrls == {"u1"}
InitConc ==
    /\ InitDb /\ ex = ExIdle /\ PipeIdle
    /\ cfg \in {[DefaultConfig EXCEPT !.mode = m] : m \in Modes}

NextConc ==
    \E w \in Workers :
        \/ \E u \in ConcUrls : IngestCall(w, u)
        \/ BasicIngestStep(w)

SpecConc == InitConc /\ [][NextConc]_vars

\* ------------------------------------------ re-ingestion of a long document
\* page versions of one and of ChunkPageLimit + 1 passages
LongVersions == {1, ChunkPageLimit + 1}
LongUrls == {"u1"}

InitLong ==
    /\ InitDb /\ ex = ExIdle /\ PipeIdle
    /\ cfg \in {[DefaultConfig EXCEPT !.mode = m] : m \in Modes}

NextLong ==
    \/ \E u \in LongUrls : IngestCall(1, u)
    \/ \E out \in FetchOutcomes, v \in {0} \cup LongVersions : BasicCheck(1, out, v)
    \/ BasicDeleteExisting(1)
    \/ BasicUpdateDocument(1)
    \/ BasicCreateDocument(1)
    \/ BasicCreateChunks(1)
    \/ BasicFinalize(1)
    \/ BasicPersistFail(1)

SpecLong == InitLong /\ [][NextLong]_vars

\* the chunks stored for document d
ChunksOf(d) == {c \in DOMAIN chunks : chunks[c].document_id = d}

\* C13: within every document the chunk_index values are unique and increase
\* in the order the chunks were written, and 0 <= chunk_index <
\* total_chunks_in_doc for every chunk.
C13_ChunkIndexInvariant ==
    \A d \in DOMAIN docs :
        /\ \A a, b \in ChunksOf(d) :
               a < b => chunks[a].chunk_index < chunks[b].chunk_index
        /\ \A c \in ChunksOf(d) :
               0 <= chunks[c].chunk_index
                   /\ chunks[c].chunk_index < chunks[c].total_chunks_in_doc

\* worker w's re-ingest writes its new chunks in this step
WritesNewChunks(w) ==
    /\ wk[w].pc = "chunks" /\ wk'[w].pc = "final"
    /\ wk[w].existing

\* C12: when a re-ingest writes the document's new chunks, no chunk of the
\* document's previous ingestion is left in the store.
C12_OldChunksGoneFirst ==
    [][\A w \in Workers :
          WritesNewChunks(w) =>
              \A c \in DOMAIN chunks : chunks[c].document_id # wk[w].url]_vars

\* ------------------------------------------- deletes and what goes with them
\* the structured_* tables the deletes are run against
CascadeKinds == {"table", "formula"}

\* crud_structured_content.create_table, create_formula, ...: the row takes
\* chunk_id and document_id as the caller gives them; both are foreign keys
CrudCreateFact(kind, c, d) ==
    /\ c \in DOMAIN chunks
    /\ d \in DOMAIN docs
    /\ FactRow(kind, c, d) \notin facts
    /\ facts' = facts \cup {FactRow(kind, c, d)}
    /\ lastOp' = Op("create_fact", NoSection, c, 0, 0)
    /\ UNCHANGED <<dbVars, ex, rs, lc, sc, hp, cfg, wk, errCount, run, log>>

\* crud_chunk.delete_chunk: db.delete(chunk), with the relationships'
\* cascade="all, delete-orphan"
CrudDeleteChunk(c) ==
    /\ c \in DOMAIN chunks
    /\ WithoutChunks({c})
    /\ lastOp' = Op("delete_chunk", NoSection, c, 0,
                    Cardinality({f \in facts : f.chunk_id = c}))
    /\ UNCHANGED <<docs, nextChunk, nextRef, ex, rs, lc, sc, hp, cfg, wk, errCount, run, log>>

\* crud_chunk.delete_chunks_by_document: one bulk DELETE, with the foreign
\* keys' ondelete="CASCADE"
CrudDeleteChunksByDocument(d) ==
    LET gone == {c \in DOMAIN chunks : chunks[c].document_id = d}
    IN  /\ WithoutChunks(gone)
        /\ lastOp' = Op("delete_chunks_by_document", NoSection, NoChunk, 0,
                        Cardinality(gone))
        /\ UNCHANGED <<docs, nextChunk, nextRef, ex, rs, lc, sc, hp, cfg, wk, errCount, run, log>>

\* crud_document.delete_document: db.delete(document); the document's chunks
\* go with it, and the structured_* rows of the document and of its chunks
CrudDeleteDocument(d) ==
    LET gone == {c \in DOMAIN chunks : chunks[c].document_id = d}
    IN  /\ d \in DOMAIN docs
        /\ docs' = Restrict(docs, DOMAIN docs \ {d})
        /\ chunks' = Restrict(chunks, DOMAIN chunks \ gone)
        /\ refs' = Restrict(refs, {r \in DOMAIN refs :
                                      /\ refs[r].source_chunk_id \notin gone
                                      /\ refs[r].target_chunk_id \notin gone})
        /\ facts' = {f \in facts : f.chunk_id \notin gone /\ f.document_id # d}
        /\ lastOp' = Op("delete_document", NoSection, NoChunk, 0,
                        Cardinality({f \in facts : f.chunk_id \in gone \/ f.document_id = d}))
        /\ UNCHANGED <<nextChunk, nextRef, ex, rs, lc, sc, hp, cfg, wk, errCount, run, log>>

InitCascade == InitDb /\ ex = ExIdle /\ PipeIdle /\ cfg = DefaultConfig

NextCascade ==
    \/ \E u \in URLs : CrudCreateDocument(u)
    \/ \E d \in URLs : CrudCreateChunk(d, NoSection)
    \/ \E k \in CascadeKinds, c \in ChunkIds, d \in URLs : CrudCreateFact(k, c, d)
    \/ \E c \in ChunkIds : CrudDeleteChunk(c)
    \/ \E d \in URLs : CrudDeleteChunksByDocument(d)
    \/ \E d \in URLs : CrudDeleteDocument(d)

SpecCascade == InitCascade /\ [][NextCascade]_vars

\* --------------------------------- LegalChunker: splitting around lists
MaxTextLen == 5
MaxSplitSize == 3
MaxListSize == 4

\* A section's text as a sequence of lines of one unit of length each:
\*   "start"  a line CONDITION_START_PATTERN matches ("You must ...:"),
\*   "item"   a line CONDITION_ITEM_PATTERN matches ("(a) ... ."),
\*   "para"   a paragraph break,
\*   "text"   an ordinary sentence ("The ... .").
\* A string cut from the text is the sequence of the positions it covers.
Tokens == {"start", "item", "para", "text"}
Texts == UNION {[1..n -> Tokens] : n \in 1..MaxTextLen}

SetMax(S) == CHOOSE x \in S : \A y \in S : y <= x
SetMin(S) == CHOOSE x \in S : \A y \in S : x <= y

\* text[a:b], by position: a is the first position, b the one after the last
Slice(a, b) == [k \in 1..(IF b > a THEN b - a ELSE 0) |-> a + k - 1]

\* str.strip(): paragraph breaks are whitespace
Strip(text, q) ==
    LET solid == {i \in 1..Len(q) : text[q[i]] # "para"}
    IN  IF solid = {} THEN << >> ELSE SubSeq(q, SetMin(solid), SetMax(solid))

\* sentence_pattern (?<=[.!?])\s+(?=[A-Z]): sentences and items end in a full
\* stop, sentences and condition starts begin with a capital
EndsSentence(t) == t \in {"text", "item"}
StartsCapital(t) == t \in {"text", "start"}

RECURSIVE SplitLoop(_, _, _)
SplitLoop(text, remaining, max_size) ==
    IF remaining = << >> THEN << >>
    ELSE IF Len(remaining) <= max_size THEN <<remaining>>
    ELSE LET para_matches == {j \in 1..max_size : text[remaining[j]] = "para"}
             sent_matches == {j \in 1..(max_size - 1) :
                                 /\ EndsSentence(text[remaining[j]])
                                 /\ StartsCapital(text[remaining[j + 1]])}
             split_point == IF para_matches # {} THEN SetMax(para_matches)
                            ELSE IF sent_matches # {} THEN SetMax(sent_matches)
                            ELSE max_size
         IN  <<Strip(text, SubSeq(remaining, 1, split_point))>>
                 \o SplitLoop(text,
                              Strip(text, SubSeq(remaining, split_point + 1, Len(remaining))),
                              max_size)

split_at_boundaries(text, q, max_size) ==
    IF Len(q) <= max_size THEN <<q>>
    ELSE SelectSeq(SplitLoop(text, q, max_size), LAMBDA p : p # << >>)

\* for every condition start that has an item after it: from the start to the
\* first paragraph break after the LAST item of the rest of the text
find_condition_list_boundaries(text) ==
    LET Items(s) == {i \in s..Len(text) : text[i] = "item"}
        starts == {s \in 1..Len(text) : text[s] = "start" /\ Items(s) # {}}
        End(s) == LET breaks == {p \in SetMax(Items(s))..Len(text) : text[p] = "para"}
                  IN  IF breaks # {} THEN SetMin(breaks) ELSE Len(text) + 1
        order == CHOOSE q \in [1..Cardinality(starts) -> starts] :
                     \A i, j \in 1..Cardinality(starts) : i < j => q[i] < q[j]
    IN  [k \in 1..Cardinality(starts) |-> [start |-> order[k], end |-> End(order[k])]]

\* one pass of the loop over list_boundaries
ListStep(text, max_size, ceiling, st, b) ==
    LET before_list == Strip(text, Slice(st.current_pos, b.start))
        flush == st.current_size + Len(before_list) > max_size /\ st.current_chunk # << >>
        st1 == IF before_list = << >> THEN st
               ELSE [st EXCEPT
                       !.pieces = IF flush THEN Append(@, st.current_chunk) ELSE @,
                       !.current_chunk = (IF flush THEN << >> ELSE @) \o before_list,
                       !.current_size = (IF flush THEN 0 ELSE @) + Len(before_list)]
        list_text == Strip(text, Slice(b.start, b.end))
        saved == IF st1.current_chunk # << >> THEN Append(st1.pieces, st1.current_chunk)
                 ELSE st1.pieces
    IN  IF st1.current_size + Len(list_text) > max_size
        THEN [current_pos |-> b.end, current_chunk |-> << >>, current_size |-> 0,
              pieces |-> saved \o (IF Len(list_text) > ceiling
                                   THEN split_at_boundaries(text, list_text, max_size)
                                   ELSE <<list_text>>)]
        ELSE [st1 EXCEPT !.current_pos = b.end,
                         !.current_chunk = @ \o list_text,
                         !.current_size = @ + Len(list_text)]

RECURSIVE ListLoop(_, _, _, _, _, _)
ListLoop(text, max_size, ceiling, list_boundaries, k, st) ==
    IF k > Len(list_boundaries) THEN st
    ELSE ListLoop(text, max_size, ceiling, list_boundaries, k + 1,
                  ListStep(text, max_size, ceiling, st, list_boundaries[k]))

split_preserving_lists(text, max_size, ceiling) ==
    LET whole == Slice(1, Len(text) + 1)
        list_boundaries == find_condition_list_boundaries(text)
        st == ListLoop(text, max_size, ceiling, list_boundaries, 1,
                       [current_pos |-> 1, current_chunk |-> << >>,
                        current_size |-> 0, pieces |-> << >>])
        remaining == Strip(text, Slice(st.current_pos, Len(text) + 1))
        pieces == IF remaining # << >>
                  THEN IF st.current_size + Len(remaining) > max_size /\ st.current_chunk # << >>
                       THEN Append(st.pieces, st.current_chunk)
                                \o split_at_boundaries(text, remaining, max_size)
                       ELSE Append(st.pieces, st.current_chunk \o remaining)
                  ELSE IF st.current_chunk # << >> THEN Append(st.pieces, st.current_chunk)
                  ELSE st.pieces
    IN  IF Len(text) <= max_size THEN <<whole>>
        ELSE IF list_boundaries = << >> THEN split_at_boundaries(text, whole, max_size)
        ELSE SelectSeq(pieces, LAMBDA p : Strip(text, p) # << >>)

has_condition_list(text) ==
    /\ \E i \in 1..Len(text) : text[i] = "start"
    /\ \E i \in 1..Len(text) : text[i] = "item"

\* _chunk_section calls the splitter on a section's content that has a list
SplitPreservingLists(text, max_size, ceiling) ==
    /\ lc.pc = "idle"
    /\ has_condition_list(text)
    /\ lc' = [pc |-> "returned", text |-> text, max_size |-> max_size,
              max_condition_list_size |-> ceiling,
              pieces |-> split_preserving_lists(text, max_size, ceiling)]
    /\ UNCHANGED <<dbVars, lastOp, ex, rs, sc, hp, pipeVars>>

InitSplit == InitDb /\ ex = ExIdle /\ PipeIdle /\ cfg = DefaultConfig

NextSplit ==
    \E text \in Texts, max_size \in 2..MaxSplitSize, ceiling \in 2..MaxListSize :
        SplitPreservingLists(text, max_size, ceiling)

SpecSplit == InitSplit /\ [][NextSplit]_vars

\* ------------------------------------------ _chunk_section: size and overlap
MaxOverlap == 2

\* the "[...] " indicator put in front of a piece, counted as one unit of length
Marker == 0

\* SENTENCE_PATTERN between positions a < b of a string q: a sentence ends at
\* a, a capital starts b, and only whitespace lies between
SentenceBreak(text, q, a, b) ==
    /\ a < b
    /\ EndsSentence(text[q[a]])
    /\ StartsCapital(text[q[b]])
    /\ \A j \in (a + 1)..(b - 1) : text[q[j]] = "para"

\* SENTENCE_PATTERN.split(q): the parts between the breaks, first to last
RECURSIVE SentenceParts(_, _, _)
SentenceParts(text, q, from) ==
    LET ends == {a \in from..(Len(q) - 1) :
                    \E b \in (a + 1)..Len(q) : SentenceBreak(text, q, a, b)}
    IN  IF from > Len(q) THEN << >>
        ELSE IF ends = {} THEN <<SubSeq(q, from, Len(q))>>
        ELSE LET a == SetMin(ends)
                 b == SetMin({x \in (a + 1)..Len(q) : SentenceBreak(text, q, a, x)})
             IN  <<SubSeq(q, from, a)>> \o SentenceParts(text, q, b)

RECURSIVE Concat(_)
Concat(parts) == IF parts = << >> THEN << >> ELSE Head(parts) \o Concat(Tail(parts))

RECURSIVE TotalLen(_)
TotalLen(parts) == IF parts = << >> THEN 0 ELSE Len(Head(parts)) + TotalLen(Tail(parts))

\* the last parts taken while they fit: k parts are taken when the last k fit
\* in the budget and the last k + 1 do not
FittingTail(parts, budget) ==
    LET fits == {k \in 0..Len(parts) :
                    TotalLen(SubSeq(parts, Len(parts) - k + 1, Len(parts))) <= budget}
        k == SetMax({j \in fits : \A i \in 0..j : i \in fits})
    IN  SubSeq(parts, Len(parts) - k + 1, Len(parts))

LastOf(q, n) == SubSeq(q, (IF Len(q) > n THEN Len(q) - n + 1 ELSE 1), Len(q))

\* chunker.py: _create_overlap
create_overlap(text, previous_chunk, overlap_size) ==
    IF previous_chunk = << >> \/ overlap_size <= 0 THEN << >>
    ELSE LET tail == LastOf(previous_chunk, overlap_size * 2)
             overlap_parts == FittingTail(SentenceParts(text, tail, 1), overlap_size)
             short == LastOf(previous_chunk, overlap_size)
         IN  IF overlap_parts # << >> THEN Strip(text, Concat(overlap_parts))
             ELSE IF Len(short) > 1 THEN Strip(text, Tail(short))
             ELSE Strip(text, short)

\* chunker.py: _split_text_at_boundaries (lines 162-190 are the loop of
\* legal_chunker._split_at_boundaries)
split_text_at_boundaries_Unsplit(text, q, max_size) == <<q>>

split_text_at_boundaries(text, q, max_size) ==
    IF Len(q) <= max_size THEN <<q>>
    ELSE SelectSeq(SplitLoop(text, q, max_size), LAMBDA p : p # << >>)

\* chunker.py: SemanticChunker._chunk_section on a section's full content
SemanticChunkSection(text, target, max, overlap_size) ==
    LET whole == Slice(1, Len(text) + 1)
        pieces == IF Len(text) <= max THEN <<whole>>
                  ELSE split_text_at_boundaries(text, whole, target)
        overlap_text(i) == IF Len(text) > max /\ i > 1 /\ overlap_size > 0
                           THEN create_overlap(text, pieces[i - 1], overlap_size)
                           ELSE << >>
    IN  /\ sc.pc = "idle"
        /\ sc' = [pc |-> "returned", chunker |-> "semantic", text |-> text,
                  target_chunk_size |-> target, max_chunk_size |-> max,
                  overlap_size |-> overlap_size, pieces |-> pieces,
                  contents |-> [i \in 1..Len(pieces) |->
                                   IF overlap_text(i) # << >>
                                   THEN <<Marker>> \o pieces[i] ELSE pieces[i]],
                  overlap_texts |-> [i \in 1..Len(pieces) |-> overlap_text(i)]]
        /\ UNCHANGED <<dbVars, lastOp, ex, rs, lc, hp, pipeVars>>

\* legal_chunker.py: LegalChunker._chunk_section, lines 618-674, on a section
\* without a condition list: the pieces are the chunks' contents as they are
LegalChunkSection(text, target, max, overlap_size) ==
    LET pieces == split_at_boundaries(text, Slice(1, Len(text) + 1), target)
    IN  /\ sc.pc = "idle"
        /\ ~has_condition_list(text)
        /\ sc' = [pc |-> "returned", chunker |-> "legal", text |-> text,
                  target_chunk_size |-> target, max_chunk_size |-> max,
                  overlap_size |-> overlap_size, pieces |-> pieces,
                  contents |-> pieces,
                  overlap_texts |-> [i \in 1..Len(pieces) |-> << >>]]
        /\ UNCHANGED <<dbVars, lastOp, ex, rs, lc, hp, pipeVars>>

\* _clean_text: a section's content neither starts nor ends with whitespace
SectionTexts == {t \in Texts : t[1] # "para" /\ t[Len(t)] # "para"}

InitChunk == InitDb /\ ex = ExIdle /\ PipeIdle /\ cfg = DefaultConfig

\* the configured sizes keep target_chunk_size below max_chunk_size, as the
\* defaults of ChunkingConfig and LegalChunkingConfig do
NextChunk ==
    \/ \E text \in SectionTexts, target \in 2..MaxSplitSize,
          max \in 3..(MaxSplitSize + 1), o \in 1..MaxOverlap :
          target < max /\ SemanticChunkSection(text, target, max, o)
    \/ \E text \in SectionTexts, target \in 2..MaxSplitSize,
          max \in 3..(MaxSplitSize + 1), o \in 1..MaxOverlap :
          target < max /\ LegalChunkSection(text, target, max, o)

SpecChunk == InitChunk /\ [][NextChunk]_vars

\* ------------------------------------- _extract_sections: the heading path
MaxHeadings == 3
MaxElements == 5
HeadingLevels == 1..6

\* the section under construction is saved when it has content
SaveSection(f) ==
    IF f.has_content
    THEN Append(f.sections, [heading |-> f.current_heading,
                             level |-> f.current_level,
                             heading_path |-> [i \in 1..Len(f.current_path) |->
                                                  f.current_path[i].heading]])
    ELSE f.sections

\* while len(current_path) > 1 and len(current_path) > heading_level: pop()
PopToLevel(path, heading_level) ==
    LET n == IF heading_level > 1 THEN heading_level ELSE 1
    IN  IF Len(path) > n THEN SubSeq(path, 1, n) ELSE path

\* the new heading is added unless its text is the document title's
AddHeading(path, heading_text, heading_level) ==
    LET entry == [heading |-> heading_text, level |-> heading_level]
    IN  IF heading_text = Title THEN path
        ELSE IF Len(path) <= heading_level THEN Append(path, entry)
        ELSE [path EXCEPT ![Len(path)] = entry]

\* one heading element of the walk
ParserHeading(heading_level, is_title) ==
    LET heading_text == IF is_title THEN Title ELSE Len(hp.levels) + 1
    IN  /\ Len(hp.levels) < MaxHeadings
        /\ hp' = [levels |-> Append(hp.levels, heading_level),
                  current_path |-> AddHeading(PopToLevel(hp.current_path,
                                                         heading_level),
                                              heading_text, heading_level),
                  current_heading |-> heading_text,
                  current_level |-> heading_level,
                  has_content |-> FALSE,
                  sections |-> SaveSection(hp)]
        /\ UNCHANGED <<dbVars, lastOp, ex, rs, lc, sc, pipeVars>>

\* one non-heading element with text
ParserContent ==
    /\ ~hp.has_content
    /\ Len(hp.levels) + Len(hp.sections) < MaxElements
    /\ hp' = [hp EXCEPT !.has_content = TRUE]
    /\ UNCHANGED <<dbVars, lastOp, ex, rs, lc, sc, pipeVars>>

InitParse == InitDb /\ ex = ExIdle /\ PipeIdle /\ cfg = DefaultConfig

NextParse ==
    \/ \E heading_level \in HeadingLevels, is_title \in BOOLEAN :
          ParserHeading(heading_level, is_title)
    \/ ParserContent

SpecParse == InitParse /\ [][NextParse]_vars

\* ------------------------------------------------ claims on the pipeline
\* worker w's ingest_url has fetched a page whose hash equals the hash stored
\* for its URL (the step that makes the stored-hash check)
SameHashFetched(w) ==
    /\ wk[w].pc = "start" /\ wk'[w].pc # "start"
    /\ wk'[w].hash # NoHash
    /\ wk[w].url \in DOMAIN docs
    /\ docs[wk[w].url].content_hash = wk'[w].hash

\* ingest_url returns "skipped" from that step, having written nothing
SkippedUntouched(w) ==
    /\ wk'[w].pc = "returned" /\ wk'[w].action = "skipped" /\ wk'[w].chunks_created = 0
    /\ docs' = docs /\ chunks' = chunks

\* C1 (as stated): re-ingesting a URL whose fetched content hash equals the
\* stored hash creates no chunk and no document and is reported "skipped".
C1_SameHashSkipped ==
    [][\A w \in Workers : SameHashFetched(w) => SkippedUntouched(w)]_vars

\* C1 (amended): the same, for a pipeline whose mode is not force_update.
C1_SameHashSkippedUnlessForced ==
    [][\A w \in Workers :
          (SameHashFetched(w) /\ cfg.mode # "force_update") => SkippedUntouched(w)]_vars

\* a re-ingest of an unchanged page has returned "skipped"
C1_Witness ==
    /\ wk[1].pc = "returned" /\ wk[1].action = "skipped" /\ wk[1].success
    /\ wk[1].reason = "unchanged"
    /\ wk[1].url \in DOMAIN docs
    /\ wk[1].hash # NoHash /\ docs[wk[1].url].content_hash = wk[1].hash
    /\ \E c \in DOMAIN chunks : chunks[c].document_id = wk[1].url

\* every URL of the run was ingested and stored
AllIngested ==
    /\ run.pc = "finished"
    /\ \A u \in URLs : \E k \in 1..Len(run.results) :
           run.results[k].url = u /\ run.results[k].success
                                  /\ run.results[k].action \in {"created", "updated"}

C8_CeilingAborts ==
    /\ run.pc = "ingesting" => run.docs_failed < cfg.max_errors
    /\ (run.pc \in {"finalize", "finished"} /\ run.docs_failed >= cfg.max_errors
            /\ Len(run.results) < Len(run.urls)) => run.stopped
    /\ run.stopped => /\ run.pc \in {"finalize", "finished"}
                      /\ Len(run.results) < Len(run.urls)

\* a run that reached a ceiling of at least one failure and left a URL over
C8_Witness ==
    /\ run.pc = "finished" /\ run.stopped
    /\ cfg.max_errors > 0 /\ run.docs_failed = cfg.max_errors
    /\ Len(run.results) = cfg.max_errors /\ Len(run.results) < Len(run.urls)

\* extractor kind k has its record on chunk c
Stored(k, c) ==
    IF k = "reference" THEN \E r \in DOMAIN refs : refs[r].source_chunk_id = c
    ELSE \E f \in facts : f.kind = k /\ f.chunk_id = c

Writing == {"write", "update", "chunks", "final"}

\* C10: two workers ingesting the same URL at the same time are never both
\* past the decision "content_changed" with writes of both in the store.
C10_NoDoubleWrite ==
    \A w1, w2 \in Workers :
        (w1 # w2 /\ wk[w1].url = wk[w2].url)
        => ~ (/\ wk[w1].pc \in Writing /\ wk[w2].pc \in Writing
              /\ wk[w1].reason = "content_changed" /\ wk[w2].reason = "content_changed"
              /\ wk[w1].wrote /\ wk[w2].wrote)

\* the chunks that carry the section a reference row cites
TargetsOf(row) == {c \in DOMAIN chunks : chunks[c].section_id = row.reference_text}

C18_AlwaysSummary ==
    run.pc = "raised" => run.stopped

\* worker w's ingest_url returns in this step
Returns(w) == wk[w].pc # "returned" /\ wk'[w].pc = "returned"

\* C19: an ingest_url of the basic pipeline whose fetch got a 404 returns with
\* action "skipped" and leaves the error count alone, and one whose fetch got
\* another non-200 status returns "failed" and adds one to the error count.
C19_NotFoundSkipped ==
    [][\A w \in Workers :
          (cfg.kind = "basic" /\ Returns(w)) =>
              /\ wk'[w].error = "not_found" =>
                     wk'[w].action = "skipped" /\ errCount'[w] = errCount[w]
              /\ wk'[w].error = "api_error" =>
                     wk'[w].action = "failed" /\ errCount'[w] = errCount[w] + 1]_vars

C27_StoredHashIsIngestedHash ==
    [][\A w \in Workers :
          (/\ Returns(w)
           /\ wk'[w].success
           /\ wk'[w].action \in {"created", "updated"})
          => /\ wk'[w].url \in DOMAIN docs'
             /\ docs'[wk'[w].url].content_hash =
                    ComputeContentHash(Text(wk'[w].url, wk'[w].version))]_vars

\* the passages of version v of the page at u are all stored on u's document
HasChunksOf(u, v) ==
    \A i \in 0..(NumChunks(v) - 1) :
        \E c \in DOMAIN chunks' :
            /\ chunks'[c].document_id = u
            /\ chunks'[c].chunk_index = i
            /\ chunks'[c].content = Text(u, v)

\* C28: whenever an ingest_url is skipped because the stored hash equals the
\* hash of the fetched text, the document has the passages built from that
\* text: no failed re-ingestion has left the new hash stored with the old
\* passages deleted and no new ones written.
C28_UnchangedSkipHasChunks ==
    [][\A w \in Workers :
          (/\ Returns(w)
           /\ wk'[w].action = "skipped"
           /\ wk'[w].reason = "unchanged")
          => HasChunksOf(wk'[w].url, wk'[w].version)]_vars

\* the failures among the results of the run in progress
FailuresThisRun == {i \in 1..Len(run.results) : ~run.results[i].success}

C20_CascadeToFacts ==
    [][/\ \A c \in DOMAIN chunks \ DOMAIN chunks' : \A f \in facts' : f.chunk_id # c
       /\ \A d \in DOMAIN docs \ DOMAIN docs' : \A f \in facts' : f.document_id # d]_vars

\* a delete of a chunk or of a document took facts with it and left others
C20_Witness ==
    /\ lastOp.op \in {"delete_chunk", "delete_document"}
    /\ lastOp.count > 0
    /\ facts # {}

\* ------------------------------------------------ claims on the splitter
\* the pieces cut the source between positions p and q: one piece ends at p and
\* the next one starts at q, with nothing but whitespace between them
CutBetween(p, q) ==
    /\ p < q
    /\ \A j \in (p + 1)..(q - 1) : lc.text[j] = "para"
    /\ \E k \in 1..(Len(lc.pieces) - 1) :
           /\ lc.pieces[k][Len(lc.pieces[k])] = p
           /\ lc.pieces[k + 1][1] = q

\* the detected units that a chunk boundary falls inside
CutUnits ==
    {k \in DOMAIN find_condition_list_boundaries(lc.text) :
        LET b == find_condition_list_boundaries(lc.text)[k]
        IN  \E p, q \in b.start..(b.end - 1) : CutBetween(p, q)}

UnitLength(k) ==
    LET b == find_condition_list_boundaries(lc.text)[k]
    IN  Len(Strip(lc.text, Slice(b.start, b.end)))

\* C14: after the splitter has returned, every detected condition-list unit
\* that a chunk boundary falls inside is longer than max_condition_list_size.
C14_ListsKeptWhole ==
    lc.pc = "returned" =>
        \A k \in CutUnits : UnitLength(k) > lc.max_condition_list_size

\* ------------------------------------------------ claims on the parser
\* what the heading path should become: the entries on top whose level is at
\* least the new heading's are popped (the title at the bottom stays) and the
\* new heading is pushed
PoppedAndPushed(path, heading_text, heading_level) ==
    LET keep == {n \in 1..Len(path) :
                    \A i \in 2..n : path[i].level < heading_level}
    IN  Append(SubSeq(path, 1, SetMax(keep)),
               [heading |-> heading_text, level |-> heading_level])

\* C26: on every heading element whose text is not the document title's, the
\* heading path loses the entries on top whose level is at least the new
\* heading's level and gains the new heading, whatever levels came before
C26_PopThenPush ==
    [][(Len(hp'.levels) = Len(hp.levels) + 1 /\ hp'.current_heading # Title)
         => hp'.current_path =
              PoppedAndPushed(hp.current_path, hp'.current_heading,
                              hp'.current_level)]_vars

TrailingSentences(piece, budget) ==
    Concat(FittingTail(SentenceParts(sc.text, piece, 1), budget))

IsPrefix(p, q) == Len(p) <= Len(q) /\ SubSeq(q, 1, Len(p)) = p

\* C25: the content of every chunk after the first of a split section starts
\* with the longest run of complete trailing sentences of the previous piece
\* that fits in overlap_size.
C25_OverlapPrefix ==
    sc.pc = "returned" =>
        \A i \in 2..Len(sc.contents) :
            IsPrefix(TrailingSentences(sc.pieces[i - 1], sc.overlap_size), sc.contents[i])

\* ------------------------------------------------ claims on the reference store
\* reference r is resolved to a target chunk by this step: it is resolved with
\* a target afterwards, and was not there, not resolved, or on another target
ResolvedByStep(r) ==
    /\ refs'[r].is_resolved
    /\ refs'[r].target_chunk_id # NoChunk
    /\ \/ r \notin DOMAIN refs
       \/ ~refs[r].is_resolved
       \/ refs[r].target_chunk_id # refs'[r].target_chunk_id

\* C22: in the state after a step that resolves a reference to a target chunk,
\* the target chunk's has_incoming_references and the source chunk's
\* has_outgoing_references are both true.
C22_FlagsRaisedWithResolution ==
    [][\A r \in DOMAIN refs' :
          ResolvedByStep(r) =>
              /\ chunks'[refs'[r].target_chunk_id].has_incoming_references
              /\ chunks'[refs'[r].source_chunk_id].has_outgoing_references]_vars

\* C29: in every state reached by reference creations, resolutions and
\* deletions, a chunk's has_outgoing_references is true exactly when some
\* reference has the chunk as source, and its has_incoming_references is true
\* exactly when some resolved reference has the chunk as target.
C29_FlagsExact ==
    \A c \in DOMAIN chunks :
        /\ chunks[c].has_outgoing_references
              <=> (\E r \in DOMAIN refs : refs[r].source_chunk_id = c)
        /\ chunks[c].has_incoming_references
              <=> (\E r \in DOMAIN refs :
                      refs[r].is_resolved /\ refs[r].target_chunk_id = c)

C4_ResolvedIffTarget ==
    \A r \in DOMAIN refs : refs[r].is_resolved = (refs[r].target_chunk_id # NoChunk)

\* C5: a resolved reference never reverts to unresolved, whatever operation follows.
C5_NeverReverts ==
    [][\A r \in DOMAIN refs :
          (refs[r].is_resolved /\ r \in DOMAIN refs') => refs'[r].is_resolved]_vars

====
